---------------------------- MODULE Spec2Model ----------------------------
(***************************************************************************)
(* Block-sparse helpers of FastNN (src/utils.py): reduce_mask selects the  *)
(* active blocks of a mask, sparse_gather copies the selected blocks of a  *)
(* feature tensor into a dense batch, sparse_scatter writes a batch back.  *)
(*                                                                         *)
(* Conventions of the model.                                               *)
(*  - Python lists and shapes are TLA+ tuples, so Python's bsize[0] is     *)
(*    bsize[1] here; pixel, grid and batch coordinates stay 0-based.       *)
(*  - A tensor is a function from its 0-based coordinate tuples to         *)
(*    values.  Values are small integers, on which the float arithmetic    *)
(*    of the code (mean, +=, copies between float tensors) is exact; a     *)
(*    threshold is a rational <<num, den>>.                                *)
(*  - A call either returns (err = "none") or raises (err names the        *)
(*    exception); a raising call returns nothing, but what it wrote to     *)
(*    its in-place argument before raising stays written.                  *)
(***************************************************************************)
EXTENDS Integers, Sequences, FiniteSets, TLC

VARIABLES
    mask,       \* mask tensor, [<<n, h, w>> -> 0 or 1]
    msize,      \* <<N, H, W>>, the shape handed over with the mask
    mrank,      \* len(mask.size())
    typed,      \* bsize, bcount, boffset and bstride are lists or tuples
    bsize,      \* <<block height, block width>>
    bcount,     \* <<grid height, grid width>>
    boffset,    \* <<offset height, offset width>>
    bstride,    \* <<stride height, stride width>>
    thresh,     \* <<num, den>>
    x,          \* feature tensor, [<<n, c, h, w>> -> value]
    z,          \* a second tensor of x's shape, zero-initialised
    xsize,      \* <<N, C, H, W>>
    gathered,   \* the batch: a sequence of slots [<<c, r, s>> -> value]
    activeBlockIndices,  \* sequence of <<B, h0, w0>>
    pc,         \* which call has been made
    do_add,     \* the mode of the scatter call that was made
    returned,   \* the call returned a value
    err         \* "none" or the exception the call raised

vars == <<mask, msize, mrank, typed, bsize, bcount, boffset, bstride, thresh,
          x, z, xsize, gathered, activeBlockIndices, pc, do_add, returned, err>>

cfgvars == <<mask, msize, mrank, typed, bsize, bcount, boffset, bstride,
             thresh, xsize>>

-----------------------------------------------------------------------------
(* Bounds of the model. *)

MaxDim == 2
\* the spatial extents H and W range over 1..MaxDim

MaxOnes == 1
\* a mask differs from a constant mask in at most MaxOnes pixels

MaxLen == 2
\* an index list handed to gather or scatter has at most MaxLen entries

Batches == {1, 2}
Channels == {1, 2}
BlockSizes == {1, 2}
GridCounts == {1, 2}
Offsets == {0, 1}
Strides == {1, 2}
Thresholds == {<<1, 4>>, <<1, 2>>}
Ranks == {2, 3, 4}

Min(a, b) == IF a < b THEN a ELSE b

RECURSIVE SumOver(_, _)
SumOver(f, S) ==
    IF S = {} THEN 0
    ELSE LET p == CHOOSE q \in S : TRUE IN f[p] + SumOver(f, S \ {p})

-----------------------------------------------------------------------------
(* Slicing: lo : min(lo + bs, ext) on an axis of extent ext, lo >= 0. *)

Corner(off, g, stride) == off + g * stride

WinLen(lo, bs, ext) ==
    LET hi == Min(lo + bs, ext) IN IF hi > lo THEN hi - lo ELSE 0

WinRange(lo, bs, ext) == lo .. (lo + WinLen(lo, bs, ext) - 1)

-----------------------------------------------------------------------------
(* reduce_mask *)

\* The asserts without the one on square blocks.
ConfigAssertsTypesOnly == typed

\* assert type(...) in [list, tuple], four times; assert bsize[0] == bsize[1]
ConfigAsserts == typed /\ bsize[1] = bsize[2]

MaskAsserts ==
    /\ mrank = 3
    /\ ConfigAsserts
    /\ msize[2] % bcount[1] = 0
    /\ msize[3] % bcount[2] = 0

\* block = mask[N, bh:min(bh+bsize[0], msize[1]), bw:min(bw+bsize[1], msize[2])]
Block(m, N, h0, w0) ==
    LET bh_index == Corner(boffset[1], h0, bstride[1])
        bw_index == Corner(boffset[2], w0, bstride[2])
    IN  {N} \X WinRange(bh_index, bsize[1], msize[2])
            \X WinRange(bw_index, bsize[2], msize[3])

\* Active with val >= thresh in place of val > thresh.
ActiveGe(m, N, h0, w0) ==
    LET block == Block(m, N, h0, w0)
        cnt == Cardinality(block)
    IN  /\ cnt > 0
        /\ SumOver(m, block) * thresh[2] >= thresh[1] * cnt

\* val = block.mean().item(); val > thresh.  The mean of an empty block is
\* NaN, and NaN > thresh is False.
Active(m, N, h0, w0) ==
    LET block == Block(m, N, h0, w0)
        cnt == Cardinality(block)
    IN  /\ cnt > 0
        /\ SumOver(m, block) * thresh[2] > thresh[1] * cnt

\* ReduceLoop with the two grid loops exchanged: columns outside rows.
RECURSIVE ReduceLoopColumnsFirst(_, _, _)
ReduceLoopColumnsFirst(m, k, acc) ==
    IF k = msize[1] * bcount[1] * bcount[2] THEN acc
    ELSE LET N == k \div (bcount[1] * bcount[2])
             w0 == (k \div bcount[1]) % bcount[2]
             h0 == k % bcount[1]
         IN  ReduceLoopColumnsFirst(m, k + 1,
                 IF Active(m, N, h0, w0) THEN Append(acc, <<N, h0, w0>>)
                 ELSE acc)

\* The three nested loops, k counting the iterations made so far.
RECURSIVE ReduceLoop(_, _, _)
ReduceLoop(m, k, acc) ==
    IF k = msize[1] * bcount[1] * bcount[2] THEN acc
    ELSE LET N == k \div (bcount[1] * bcount[2])
             h0 == (k \div bcount[2]) % bcount[1]
             w0 == k % bcount[2]
         IN  ReduceLoop(m, k + 1,
                 IF Active(m, N, h0, w0) THEN Append(acc, <<N, h0, w0>>)
                 ELSE acc)

reduce_mask(m) == ReduceLoop(m, 0, <<>>)

ReduceMask ==
    /\ pc = "start"
    /\ pc' = "reduce_mask"
    /\ IF MaskAsserts
       THEN /\ activeBlockIndices' = reduce_mask(mask)
            /\ returned' = TRUE
            /\ err' = "none"
       ELSE /\ err' = "AssertionError"
            /\ UNCHANGED <<activeBlockIndices, returned>>
    /\ UNCHANGED <<cfgvars, x, z, gathered, do_add>>

-----------------------------------------------------------------------------
(* Inputs *)

MaskPos(ms) == (0 .. ms[1] - 1) \X (0 .. ms[2] - 1) \X (0 .. ms[3] - 1)

\* The constant mask of value v with the pixels of S flipped.
MaskOf(ms, v, S) == [p \in MaskPos(ms) |-> IF p \in S THEN 1 - v ELSE v]

Masks(ms) ==
    { MaskOf(ms, v, S) : v \in {0, 1},
        S \in { T \in SUBSET MaskPos(ms) : Cardinality(T) <= MaxOnes } }

Shapes3 == Batches \X (1 .. MaxDim) \X (1 .. MaxDim)

NoTensor == [p \in {} |-> 0]

\* No feature tensor takes part in a reduce_mask call.
NoFeature ==
    /\ x = NoTensor
    /\ z = NoTensor
    /\ xsize = <<0, 0, 0, 0>>
    /\ gathered = <<>>
    /\ do_add = FALSE

InitCalls ==
    /\ pc = "start"
    /\ returned = FALSE
    /\ err = "none"

\* Well-typed calls on rank 3 masks with square blocks, every mask.
InitMaskGeneral ==
    /\ msize \in Shapes3
    /\ mask \in Masks(msize)
    /\ mrank = 3
    /\ typed = TRUE
    /\ \E b \in BlockSizes : bsize = <<b, b>>
    /\ bcount \in GridCounts \X GridCounts
    /\ boffset \in Offsets \X Offsets
    /\ bstride \in Strides \X Strides
    /\ thresh \in Thresholds

\* mask shape (1,4,4), constant mask, bsize (2,2), bcount (2,2), boffset (0,0),
\* bstride (2,2), thresh 0.5
InitMaskScenario ==
    /\ msize = <<1, 4, 4>>
    /\ \E v \in {0, 1} : mask = MaskOf(msize, v, {})
    /\ mrank = 3
    /\ typed = TRUE
    /\ bsize = <<2, 2>>
    /\ bcount = <<2, 2>>
    /\ boffset = <<0, 0>>
    /\ bstride = <<2, 2>>
    /\ thresh = <<1, 2>>

-----------------------------------------------------------------------------
(* Tensor assignment.  dst[...] = src and dst[...] += src copy src expanded  *)
(* to dst's shape: a dimension of src must equal dst's or be 1, else the     *)
(* copy raises RuntimeError.                                                 *)

Expandable(src, dst) == src = dst \/ src = 1

\* The coordinate of src that lands on offset d of the destination.
Expanded(src, d) == IF src = 1 THEN 0 ELSE d

XPos(xs) ==
    (0 .. xs[1] - 1) \X (0 .. xs[2] - 1) \X (0 .. xs[3] - 1) \X (0 .. xs[4] - 1)

SlotPos == (0 .. xsize[2] - 1) \X (0 .. bsize[1] - 1) \X (0 .. bsize[2] - 1)

-----------------------------------------------------------------------------
(* sparse_gather *)

\* torch.empty: the content of the new batch is whatever the memory holds.
Uninitialised == {0, -1}

EmptyBatch(n, u) == [i \in 1 .. n |-> [p \in SlotPos |-> u]]

\* gathered[count_index] = x[B, :, bh:min(bh+bsize[0], xsize[2]),
\*                               bw:min(bw+bsize[1], xsize[3])]
GatherFits(e) ==
    LET bh_index == Corner(boffset[1], e[2], bstride[1])
        bw_index == Corner(boffset[2], e[3], bstride[2])
    IN  /\ Expandable(WinLen(bh_index, bsize[1], xsize[3]), bsize[1])
        /\ Expandable(WinLen(bw_index, bsize[2], xsize[4]), bsize[2])

\* GatherSlot with the offset left out of the corner.
GatherSlotNoOffset(t, e) ==
    LET bh_index == Corner(0, e[2], bstride[1])
        bw_index == Corner(0, e[3], bstride[2])
        hh == WinLen(bh_index, bsize[1], xsize[3])
        ww == WinLen(bw_index, bsize[2], xsize[4])
    IN  [p \in SlotPos |->
            t[<<e[1], p[1], bh_index + Expanded(hh, p[2]),
                bw_index + Expanded(ww, p[3])>>]]

\* GatherSlot reading batch 0 whatever the entry's batch index.
GatherSlotFirstImage(t, e) ==
    LET bh_index == Corner(boffset[1], e[2], bstride[1])
        bw_index == Corner(boffset[2], e[3], bstride[2])
        hh == WinLen(bh_index, bsize[1], xsize[3])
        ww == WinLen(bw_index, bsize[2], xsize[4])
    IN  [p \in SlotPos |->
            t[<<0, p[1], bh_index + Expanded(hh, p[2]),
                bw_index + Expanded(ww, p[3])>>]]

GatherSlot(t, e) ==
    LET bh_index == Corner(boffset[1], e[2], bstride[1])
        bw_index == Corner(boffset[2], e[3], bstride[2])
        hh == WinLen(bh_index, bsize[1], xsize[3])
        ww == WinLen(bw_index, bsize[2], xsize[4])
    IN  [p \in SlotPos |->
            t[<<e[1], p[1], bh_index + Expanded(hh, p[2]),
                bw_index + Expanded(ww, p[3])>>]]

\* The loop over activeBlockIndices, count_index + 1 = i.
RECURSIVE GatherLoop(_, _, _, _)
GatherLoop(t, abi, i, acc) ==
    IF i > Len(abi) THEN [out |-> acc, err |-> "none"]
    ELSE IF ~GatherFits(abi[i]) THEN [out |-> acc, err |-> "RuntimeError"]
    ELSE GatherLoop(t, abi, i + 1, [acc EXCEPT ![i] = GatherSlot(t, abi[i])])

sparse_gather(t, abi, u) == GatherLoop(t, abi, 1, EmptyBatch(Len(abi), u))

Gather ==
    /\ pc = "start"
    /\ pc' = "sparse_gather"
    /\ IF ~ConfigAsserts
       THEN /\ err' = "AssertionError"
            /\ UNCHANGED <<gathered, returned>>
       ELSE \E u \in Uninitialised :
            \E r \in {sparse_gather(x, activeBlockIndices, u)} :
                IF r.err = "none"
                THEN /\ gathered' = r.out
                     /\ returned' = TRUE
                     /\ err' = "none"
                ELSE /\ err' = r.err
                     /\ UNCHANGED <<gathered, returned>>
    /\ UNCHANGED <<cfgvars, x, z, activeBlockIndices, do_add>>

-----------------------------------------------------------------------------
(* sparse_scatter *)

\* x[B, :, bh:min(bh+bsize[0], xsize[2]), bw:min(bw+bsize[1], xsize[3])]
InWindow(p, e) ==
    LET bh_index == Corner(boffset[1], e[2], bstride[1])
        bw_index == Corner(boffset[2], e[3], bstride[2])
    IN  /\ p[1] = e[1]
        /\ p[3] \in WinRange(bh_index, bsize[1], xsize[3])
        /\ p[4] \in WinRange(bw_index, bsize[2], xsize[4])

\* The slot, of shape (C, bsize[0], bsize[1]), expands to the window.
ScatterFits(e) ==
    LET bh_index == Corner(boffset[1], e[2], bstride[1])
        bw_index == Corner(boffset[2], e[3], bstride[2])
    IN  /\ Expandable(bsize[1], WinLen(bh_index, bsize[1], xsize[3]))
        /\ Expandable(bsize[2], WinLen(bw_index, bsize[2], xsize[4]))

\* ScatterWrite that overwrites in add mode too.
ScatterWriteOverwrites(t, slot, e, add) ==
    LET bh_index == Corner(boffset[1], e[2], bstride[1])
        bw_index == Corner(boffset[2], e[3], bstride[2])
    IN  [p \in DOMAIN t |->
            IF InWindow(p, e)
            THEN slot[<<p[2], Expanded(bsize[1], p[3] - bh_index),
                        Expanded(bsize[2], p[4] - bw_index)>>]
            ELSE t[p]]

\* ... += gathered[count_index]  or  ... = gathered[count_index]
ScatterWrite(t, slot, e, add) ==
    LET bh_index == Corner(boffset[1], e[2], bstride[1])
        bw_index == Corner(boffset[2], e[3], bstride[2])
    IN  [p \in DOMAIN t |->
            IF InWindow(p, e)
            THEN (IF add THEN t[p] ELSE 0)
                 + slot[<<p[2], Expanded(bsize[1], p[3] - bh_index),
                          Expanded(bsize[2], p[4] - bw_index)>>]
            ELSE t[p]]

\* ScatterLoop that stops quietly where the batch ends.
RECURSIVE ScatterLoopStopsAtBatchEnd(_, _, _, _, _)
ScatterLoopStopsAtBatchEnd(t, g, abi, i, add) ==
    IF i > Len(abi) \/ i > Len(g) THEN [out |-> t, err |-> "none"]
    ELSE IF ~ScatterFits(abi[i]) THEN [out |-> t, err |-> "RuntimeError"]
    ELSE ScatterLoopStopsAtBatchEnd(ScatterWrite(t, g[i], abi[i], add),
                                    g, abi, i + 1, add)

\* ScatterLoop with count_index never incremented: every entry takes slot 0.
RECURSIVE ScatterLoopStuckCount(_, _, _, _, _)
ScatterLoopStuckCount(t, g, abi, i, add) ==
    IF i > Len(abi) THEN [out |-> t, err |-> "none"]
    ELSE IF Len(g) = 0 THEN [out |-> t, err |-> "IndexError"]
    ELSE IF ~ScatterFits(abi[i]) THEN [out |-> t, err |-> "RuntimeError"]
    ELSE ScatterLoopStuckCount(ScatterWrite(t, g[1], abi[i], add),
                               g, abi, i + 1, add)

\* The loop over activeBlockIndices, count_index + 1 = i.
RECURSIVE ScatterLoop(_, _, _, _, _)
ScatterLoop(t, g, abi, i, add) ==
    IF i > Len(abi) THEN [out |-> t, err |-> "none"]
    ELSE IF i > Len(g) THEN [out |-> t, err |-> "IndexError"]
    ELSE IF ~ScatterFits(abi[i]) THEN [out |-> t, err |-> "RuntimeError"]
    ELSE ScatterLoop(ScatterWrite(t, g[i], abi[i], add), g, abi, i + 1, add)

sparse_scatter(t, g, abi, add) ==
    IF ~ConfigAsserts THEN [out |-> t, err |-> "AssertionError"]
    ELSE ScatterLoop(t, g, abi, 1, add)

\* A batch is at hand: sparse_gather returned it, or the caller brings one.
HaveBatch == (pc = "sparse_gather" /\ err = "none") \/ pc = "processed"

\* sparse_scatter(x, xsize, gathered, ...)
ScatterX ==
    /\ HaveBatch
    /\ pc' = "sparse_scatter(x)"
    /\ \E add \in BOOLEAN :
         \E r \in {sparse_scatter(x, gathered, activeBlockIndices, add)} :
             /\ do_add' = add
             /\ x' = r.out
             /\ err' = r.err
    /\ returned' = FALSE
    /\ UNCHANGED <<cfgvars, z, gathered, activeBlockIndices>>

\* sparse_scatter(z, xsize, gathered, ...)
ScatterZ ==
    /\ HaveBatch
    /\ pc' = "sparse_scatter(z)"
    /\ \E add \in BOOLEAN :
         \E r \in {sparse_scatter(z, gathered, activeBlockIndices, add)} :
             /\ do_add' = add
             /\ z' = r.out
             /\ err' = r.err
    /\ returned' = FALSE
    /\ UNCHANGED <<cfgvars, x, gathered, activeBlockIndices>>

-----------------------------------------------------------------------------
(* Feature tensors, index lists and batches handed to the calls *)

\* Every element of the tensor holds a value of its own, none of them 0.
Label(xs) ==
    [p \in XPos(xs) |->
        1 + p[4] + xs[4] * (p[3] + xs[3] * (p[2] + xs[2] * p[1]))]

Zeros(xs) == [p \in XPos(xs) |-> 0]

\* A batch of n slots after external processing: again all values differ.
Processed(n) ==
    [i \in 1 .. n |->
        [p \in SlotPos |->
            100 * i + 1 + p[3] + bsize[2] * (p[2] + bsize[1] * p[1])]]

Triples == (0 .. xsize[1] - 1) \X (0 .. bcount[1] - 1) \X (0 .. bcount[2] - 1)

IndexLists == UNION { [1 .. k -> Triples] : k \in 0 .. MaxLen }

\* Two images of one channel, or one image of two channels.
\* The spatial extents of a feature tensor: room for a whole block at least.
Extents == {2, 3}

Shapes4 == { s \in Batches \X Channels \X Extents \X Extents : s[1] + s[2] = 3 }

\* No offset, or a column offset.
FeatureOffsets == { o \in Offsets \X Offsets : o[1] = 0 }

NoMask ==
    /\ mask = NoTensor
    /\ msize = <<0, 0, 0>>
    /\ mrank = 3
    /\ thresh = <<1, 2>>

InitFeature ==
    /\ xsize \in Shapes4
    /\ x = Label(xsize)
    /\ z = Zeros(xsize)
    /\ typed = TRUE
    /\ \E b \in BlockSizes : bsize = <<b, b>>
    /\ bcount \in GridCounts \X GridCounts
    /\ xsize[1] = 1 \/ bcount # <<2, 2>>
    /\ boffset \in FeatureOffsets
    /\ bstride \in Strides \X Strides
    /\ activeBlockIndices \in IndexLists
    /\ do_add = FALSE

\* Gather, then scatter the batch back.
InitRT ==
    /\ InitCalls
    /\ NoMask
    /\ InitFeature
    /\ gathered = <<>>

NextRT == Gather \/ ScatterX \/ ScatterZ

SpecRT == InitRT /\ [][NextRT]_vars

\* Scatter a processed batch, of the index list's length or one off.
InitScatter ==
    /\ pc = "processed"
    /\ returned = FALSE
    /\ err = "none"
    /\ NoMask
    /\ InitFeature
    /\ \E n \in 0 .. MaxLen + 1 :
         /\ n - Len(activeBlockIndices) \in {-1, 0, 1}
         /\ gathered = Processed(n)

NextScatter == ScatterX

SpecScatter == InitScatter /\ [][NextScatter]_vars

\* Calls with every kind of configuration: blocks square or not, grid counts
\* dividing the extents or not, masks of rank 3 or not, on a mask and a feature
\* tensor of the same extents, with an index list of one entry.
ShortLists == { <<t>> : t \in Triples }

InitCfg ==
    /\ pc \in {"start", "processed"}
    /\ returned = FALSE
    /\ err = "none"
    /\ msize \in Shapes3
    /\ mask = MaskOf(msize, 1, {})
    /\ mrank \in Ranks
    /\ typed \in BOOLEAN
    /\ thresh = <<1, 2>>
    /\ xsize = <<msize[1], 1, msize[2], msize[3]>>
    /\ x = Label(xsize)
    /\ z = NoTensor
    /\ bsize \in BlockSizes \X BlockSizes
    /\ bcount \in GridCounts \X GridCounts
    /\ boffset = <<0, 0>>
    /\ \E st \in Strides : bstride = <<st, st>>
    /\ activeBlockIndices \in ShortLists
    /\ gathered = IF pc = "processed" THEN Processed(Len(activeBlockIndices))
                  ELSE <<>>
    /\ do_add = FALSE

NextCfg == ReduceMask \/ Gather \/ ScatterX

SpecCfg == InitCfg /\ [][NextCfg]_vars

Init ==
    /\ InitCalls
    /\ NoFeature
    /\ activeBlockIndices = <<>>
    /\ InitMaskGeneral \/ InitMaskScenario

Next == ReduceMask

Spec == Init /\ [][Next]_vars

-----------------------------------------------------------------------------
(* The selector *)

LexLess(a, b) ==
    \/ a[1] < b[1]
    \/ a[1] = b[1] /\ a[2] < b[2]
    \/ a[1] = b[1] /\ a[2] = b[2] /\ a[3] < b[3]

Selected == pc = "reduce_mask" /\ returned

\* C1: every index list reduce_mask returns is strictly increasing in
\* lexicographic (batch, grid row, grid column) order, and each of its triples
\* has its batch in [0, N), its grid row in [0, bcount[0]) and its grid column
\* in [0, bcount[1]).
C1_SelectorSortedInRange ==
    Selected =>
        /\ \A i \in 1 .. Len(activeBlockIndices) - 1 :
               LexLess(activeBlockIndices[i], activeBlockIndices[i + 1])
        /\ \A i \in 1 .. Len(activeBlockIndices) :
               /\ activeBlockIndices[i][1] \in 0 .. msize[1] - 1
               /\ activeBlockIndices[i][2] \in 0 .. bcount[1] - 1
               /\ activeBlockIndices[i][3] \in 0 .. bcount[2] - 1

\* A returned list that runs over two batches, two grid rows and two grid
\* columns.
C1_Witness ==
    /\ Selected
    /\ Len(activeBlockIndices) >= 4
    /\ \E i, j, k \in 1 .. Len(activeBlockIndices) :
           /\ activeBlockIndices[i][1] # activeBlockIndices[j][1]
           /\ activeBlockIndices[i][2] # activeBlockIndices[k][2]
           /\ activeBlockIndices[j][3] # activeBlockIndices[k][3]

\* The pixels of cell (n, h0, w0): from the corner offset + index * stride up
\* to corner + block size, within the mask.
CellWindow(n, h0, w0) ==
    { p \in MaskPos(msize) :
        /\ p[1] = n
        /\ p[2] >= boffset[1] + h0 * bstride[1]
        /\ p[2] < boffset[1] + h0 * bstride[1] + bsize[1]
        /\ p[3] >= boffset[2] + w0 * bstride[2]
        /\ p[3] < boffset[2] + w0 * bstride[2] + bsize[2] }

OnesIn(S) == Cardinality({ p \in S : mask[p] = 1 })

\* mean > thresh, mean = thresh: the mask is binary, so the sum is the count
\* of ones.
MeanAbove(S) == S # {} /\ OnesIn(S) * thresh[2] > thresh[1] * Cardinality(S)
MeanEqual(S) == S # {} /\ OnesIn(S) * thresh[2] = thresh[1] * Cardinality(S)

InList(e) ==
    \E i \in 1 .. Len(activeBlockIndices) : activeBlockIndices[i] = e

Scenario4x4 ==
    /\ msize = <<1, 4, 4>>
    /\ bsize = <<2, 2>>
    /\ bcount = <<2, 2>>
    /\ boffset = <<0, 0>>
    /\ bstride = <<2, 2>>
    /\ thresh = <<1, 2>>

\* C2: a grid cell is in the returned list if and only if the mean of the mask
\* over the cell's clipped window is strictly greater than the threshold (so a
\* mean equal to the threshold does not select); the all-ones 4x4 mask with
\* 2x2 blocks on a 2x2 grid of stride 2 at threshold 0.5 yields all four cells
\* and the all-zeros mask yields the empty list.
C2_SelectedIffMeanAbove ==
    Selected =>
        /\ \A n \in 0 .. msize[1] - 1, h0 \in 0 .. bcount[1] - 1,
              w0 \in 0 .. bcount[2] - 1 :
               InList(<<n, h0, w0>>) <=> MeanAbove(CellWindow(n, h0, w0))
        /\ (Scenario4x4 /\ \A p \in MaskPos(msize) : mask[p] = 1)
               => activeBlockIndices =
                      << <<0, 0, 0>>, <<0, 0, 1>>, <<0, 1, 0>>, <<0, 1, 1>> >>
        /\ (Scenario4x4 /\ \A p \in MaskPos(msize) : mask[p] = 0)
               => activeBlockIndices = <<>>

\* A returned list that leaves out a cell whose mean equals the threshold and
\* holds a cell whose window is clipped by the mask's edge.
C2_Witness ==
    /\ Selected
    /\ \E n \in 0 .. msize[1] - 1, h0 \in 0 .. bcount[1] - 1,
          w0 \in 0 .. bcount[2] - 1 :
           /\ MeanEqual(CellWindow(n, h0, w0))
           /\ ~InList(<<n, h0, w0>>)
    /\ \E i \in 1 .. Len(activeBlockIndices) :
           LET e == activeBlockIndices[i]
               S == CellWindow(e[1], e[2], e[3])
           IN  Cardinality(S) < bsize[1] * bsize[2]

-----------------------------------------------------------------------------
(* Gather and scatter *)

\* The elements of the feature tensor in the window of index entry e: batch
\* e[1], all channels, from the corner offset + index * stride up to corner +
\* block size, within the tensor.
EntryWindow(e) ==
    { p \in XPos(xsize) :
        /\ p[1] = e[1]
        /\ p[3] >= boffset[1] + e[2] * bstride[1]
        /\ p[3] < boffset[1] + e[2] * bstride[1] + bsize[1]
        /\ p[4] >= boffset[2] + e[3] * bstride[2]
        /\ p[4] < boffset[2] + e[3] * bstride[2] + bsize[2] }

\* The element of a slot that belongs to element p of the window of e.
SlotOf(p, e) ==
    <<p[2], p[3] - (boffset[1] + e[2] * bstride[1]),
      p[4] - (boffset[2] + e[3] * bstride[2])>>

\* The window of e reaches past the tensor's bound.
Clipped(e) ==
    \/ boffset[1] + e[2] * bstride[1] + bsize[1] > xsize[3]
    \/ boffset[2] + e[3] * bstride[2] + bsize[2] > xsize[4]

Entries == 1 .. Len(activeBlockIndices)

NoneClipped == \A i \in Entries : ~Clipped(activeBlockIndices[i])

NonOverlapping ==
    \A i, j \in Entries :
        i # j => EntryWindow(activeBlockIndices[i])
                     \cap EntryWindow(activeBlockIndices[j]) = {}

Covered(p) == \E i \in Entries : p \in EntryWindow(activeBlockIndices[i])

\* C3: gathering the blocks of x and scattering the batch back into x in
\* overwrite mode, with an index list whose windows do not overlap, leaves
\* every element of x as it was.
C3_OverwriteRoundTrip ==
    (pc = "sparse_scatter(x)" /\ ~do_add /\ NonOverlapping)
        => x = Label(xsize)

\* An overwrite round trip that returned, over two separate windows.
C3_Witness ==
    /\ pc = "sparse_scatter(x)"
    /\ ~do_add
    /\ err = "none"
    /\ Len(activeBlockIndices) = 2
    /\ NonOverlapping
    /\ x = Label(xsize)

\* The list is one the selector can return: strictly increasing.
Increasing ==
    \A i \in 1 .. Len(activeBlockIndices) - 1 :
        LexLess(activeBlockIndices[i], activeBlockIndices[i + 1])

\* C4 as stated: for any index list, scattering the gathered batch in add mode
\* into a zero tensor yields x inside the windows and zero elsewhere.
C4_AddRoundTripAnyList ==
    (pc = "sparse_scatter(z)" /\ do_add /\ err = "none" /\ Increasing)
        => \A p \in XPos(xsize) :
               z[p] = IF Covered(p) THEN Label(xsize)[p] ELSE 0

\* C4 amended: for an index list whose windows are pairwise disjoint and lie
\* inside the tensor, the gather and the add-mode scatter into a zero tensor
\* both return, and the result is x inside the windows and zero elsewhere.
C4_AddRoundTripDisjoint ==
    (NonOverlapping /\ NoneClipped) =>
        /\ pc = "sparse_gather" => err = "none"
        /\ (pc = "sparse_scatter(z)" /\ do_add) =>
               /\ err = "none"
               /\ \A p \in XPos(xsize) :
                      z[p] = IF Covered(p) THEN Label(xsize)[p] ELSE 0

\* An add round trip over two disjoint windows that leaves part of the tensor
\* uncovered.
C4_Witness ==
    /\ pc = "sparse_scatter(z)"
    /\ do_add
    /\ err = "none"
    /\ Len(activeBlockIndices) = 2
    /\ NonOverlapping
    /\ NoneClipped
    /\ \E p \in XPos(xsize) : ~Covered(p)
    /\ \E p \in XPos(xsize) : Covered(p) /\ z[p] = Label(xsize)[p]

\* C5: with a window that starts inside the tensor and reaches past its
\* bound, the gatherer and the scatterer clip it and return without raising;
\* the gatherer fills the valid portion of the slot and the scatterer writes
\* the in-bounds region.
C5_BoundaryBlocksClip ==
    (/\ \E i \in Entries : Clipped(activeBlockIndices[i])
     /\ \A i \in Entries : EntryWindow(activeBlockIndices[i]) # {}) =>
        /\ pc = "sparse_gather" =>
               /\ err = "none"
               /\ \A i \in Entries :
                      \A p \in EntryWindow(activeBlockIndices[i]) :
                          gathered[i][SlotOf(p, activeBlockIndices[i])]
                              = x[p]
        /\ pc \in {"sparse_scatter(x)", "sparse_scatter(z)"} => err = "none"

\* C10: the batch the gatherer returns has one slot per index entry, slot i
\* holding the feature tensor's content in the window of entry i in every
\* channel; the gatherer leaves the feature tensor and the index list as they
\* were.
C10_GatherAligned ==
    /\ [](pc = "sparse_gather" =>
            /\ x = Label(xsize)
            /\ err = "none" =>
                 /\ returned
                 /\ Len(gathered) = Len(activeBlockIndices)
                 /\ \A i \in Entries :
                        \A p \in EntryWindow(activeBlockIndices[i]) :
                            gathered[i][SlotOf(p, activeBlockIndices[i])]
                                = Label(xsize)[p])
    /\ [][pc' = "sparse_gather" =>
            /\ x' = x
            /\ activeBlockIndices' = activeBlockIndices]_vars

\* A returned batch of two slots taken from different windows.
C10_Witness ==
    /\ pc = "sparse_gather"
    /\ err = "none"
    /\ Len(gathered) = 2
    /\ gathered[1] # gathered[2]
    /\ xsize[2] = 2

-----------------------------------------------------------------------------
(* Scatter of a processed batch *)

Perms(n) ==
    { f \in [1 .. n -> 1 .. n] : \A i, j \in 1 .. n : i # j => f[i] # f[j] }

Permuted(s, f) == [i \in DOMAIN f |-> s[f[i]]]

NoDuplicates ==
    \A i, j \in Entries :
        i # j => activeBlockIndices[i] # activeBlockIndices[j]

\* What entry i adds to element p.
Contribution(i, p) ==
    IF p \in EntryWindow(activeBlockIndices[i])
    THEN gathered[i][SlotOf(p, activeBlockIndices[i])]
    ELSE 0

\* C7 as stated: a scatter call whose batch has fewer or more blocks than the
\* index list has entries fails with an error.
C7_LengthMismatchFails ==
    (pc = "sparse_scatter(x)" /\ Len(gathered) # Len(activeBlockIndices))
        => err # "none"

\* C7 amended: a scatter call whose batch has fewer blocks than the index list
\* has entries raises an error; one whose batch has more blocks than the list
\* has entries does not fail for that: it ends as the call with the batch cut
\* to the list's length ends, the surplus blocks unread.
C7_ShortBatchFails ==
    pc = "sparse_scatter(x)" =>
        /\ Len(gathered) < Len(activeBlockIndices) => err # "none"
        /\ Len(gathered) > Len(activeBlockIndices) =>
               [out |-> x, err |-> err]
                   = sparse_scatter(Label(xsize),
                         SubSeq(gathered, 1, Len(activeBlockIndices)),
                         activeBlockIndices, do_add)

\* A call with one block for two entries: the first entry is written, the
\* second raises IndexError.
C7_Witness ==
    /\ pc = "sparse_scatter(x)"
    /\ Len(activeBlockIndices) = 2
    /\ Len(gathered) = 1
    /\ err = "IndexError"
    /\ x # Label(xsize)

\* C8 as stated: in overwrite mode, with an index list free of duplicates, the
\* tensor after scatter is the same for every permutation of the list and the
\* batch.
C8_OverwriteAnyOrder ==
    (/\ pc = "sparse_scatter(x)"
     /\ ~do_add
     /\ err = "none"
     /\ NoDuplicates
     /\ Len(gathered) = Len(activeBlockIndices))
        => \A f \in Perms(Len(activeBlockIndices)) :
               sparse_scatter(Label(xsize), Permuted(gathered, f),
                              Permuted(activeBlockIndices, f), FALSE).out = x

\* C8 amended: in overwrite mode, with an index list whose windows are
\* pairwise disjoint and lie inside the tensor, the call returns, every window
\* holds the block of its own entry, the rest of the tensor is as before, and
\* every permutation of the list and the batch gives the same tensor.
C8_OverwriteDisjointAnyOrder ==
    (/\ pc = "sparse_scatter(x)"
     /\ ~do_add
     /\ NonOverlapping
     /\ NoneClipped
     /\ Len(gathered) = Len(activeBlockIndices))
        => /\ err = "none"
           /\ \A i \in Entries :
                  \A p \in EntryWindow(activeBlockIndices[i]) :
                      x[p] = gathered[i][SlotOf(p, activeBlockIndices[i])]
           /\ \A p \in XPos(xsize) : ~Covered(p) => x[p] = Label(xsize)[p]
           /\ \A f \in Perms(Len(activeBlockIndices)) :
                  sparse_scatter(Label(xsize), Permuted(gathered, f),
                                 Permuted(activeBlockIndices, f), FALSE)
                      = [out |-> x, err |-> "none"]

\* An overwrite of two disjoint windows.
C8_Witness ==
    /\ pc = "sparse_scatter(x)"
    /\ ~do_add
    /\ err = "none"
    /\ Len(activeBlockIndices) = 2
    /\ Len(gathered) = 2
    /\ NonOverlapping
    /\ NoneClipped

\* C9: after an add-mode scatter every element is its value before the call
\* plus the sum, over the entries whose window covers it, of the matching
\* element of the entry's block; elements under no window are as before; this
\* holds with overlapping windows, and every order of the entries gives the
\* same tensor.
C9_AddSumsContributions ==
    (pc = "sparse_scatter(x)" /\ do_add /\ err = "none")
        => /\ \A p \in XPos(xsize) :
                  x[p] = Label(xsize)[p]
                         + SumOver([i \in Entries |-> Contribution(i, p)],
                                   Entries)
           /\ Len(gathered) = Len(activeBlockIndices)
                  => \A f \in Perms(Len(activeBlockIndices)) :
                         sparse_scatter(Label(xsize), Permuted(gathered, f),
                                        Permuted(activeBlockIndices, f), TRUE)
                             = [out |-> x, err |-> "none"]

\* An add of two different windows that share an element.
C9_Witness ==
    /\ pc = "sparse_scatter(x)"
    /\ do_add
    /\ err = "none"
    /\ Len(activeBlockIndices) = 2
    /\ activeBlockIndices[1] # activeBlockIndices[2]
    /\ \E p \in XPos(xsize) :
           /\ p \in EntryWindow(activeBlockIndices[1])
           /\ p \in EntryWindow(activeBlockIndices[2])
           /\ x[p] = Label(xsize)[p] + Contribution(1, p) + Contribution(2, p)
    /\ \E p \in XPos(xsize) : ~Covered(p) /\ x[p] = Label(xsize)[p]

-----------------------------------------------------------------------------
(* Configuration errors *)

Square == bsize[1] = bsize[2]

MaskDivisible == msize[2] % bcount[1] = 0 /\ msize[3] % bcount[2] = 0

FeatureDivisible == xsize[3] % bcount[1] = 0 /\ xsize[4] % bcount[2] = 0

\* C6 as stated: a block that is not square, or a grid count that does not
\* divide the spatial extent, makes each of the three operations fail before
\* any data is read or written (a scatter leaves the feature tensor as it
\* was), and a mask that is not 3-dimensional makes the selector fail without
\* an index list.
C6_ConfigErrorsReported ==
    /\ (pc = "reduce_mask" /\ (mrank # 3 \/ ~Square \/ ~MaskDivisible))
           => err # "none" /\ ~returned
    /\ (pc = "sparse_gather" /\ (~Square \/ ~FeatureDivisible))
           => err # "none" /\ ~returned
    /\ (pc = "sparse_scatter(x)" /\ (~Square \/ ~FeatureDivisible))
           => err # "none" /\ x = Label(xsize)

\* C6 amended: a block that is not square makes each of the three operations
\* fail with an assertion before any data is read or written (a scatter leaves
\* the feature tensor as it was); a grid count that does not divide the mask's
\* extent, or a mask that is not 3-dimensional, makes the selector fail without
\* an index list; the gatherer and the scatterer do not look at the grid
\* count: with square blocks and windows inside the tensor they return whether
\* it divides the extent or not.
C6_SquareCheckedEverywhere ==
    /\ (pc = "reduce_mask" /\ (mrank # 3 \/ ~Square \/ ~MaskDivisible))
           => err = "AssertionError" /\ ~returned
    /\ (pc = "sparse_gather" /\ ~Square)
           => err = "AssertionError" /\ ~returned /\ x = Label(xsize)
    /\ (pc = "sparse_scatter(x)" /\ ~Square)
           => err = "AssertionError" /\ x = Label(xsize)
    /\ (pc \in {"sparse_gather", "sparse_scatter(x)"}
            /\ Square /\ typed /\ NoneClipped)
           => err = "none"

\* A scatter call with a block that is not square: it failed, and the window
\* of its entry is as before.
C6_Witness ==
    /\ pc = "sparse_scatter(x)"
    /\ ~Square
    /\ err = "AssertionError"
    /\ Len(activeBlockIndices) = 1
    /\ EntryWindow(activeBlockIndices[1]) # {}
    /\ x = Label(xsize)

=============================================================================
